---------------------------- MODULE Spec2Model ----------------------------
(***************************************************************************)
(* A model of the flashcard application (src/app/page.tsx): the CSV parser *)
(* parseCSV, the answer normaliser normalizeString, the deck selection of  *)
(* handleStartGame with shuffleArray, and the screens of FlashcardApp /    *)
(* AppContent / SetupScreen / GameScreen with the miss-count table; and    *)
(* the single-screen version Home (src/unnamed/part_000).                  *)
(*                                                                         *)
(* A string is a sequence of characters; a character is a one-element      *)
(* TLA+ string.  In the texts given to the parser a token such as "Apple"  *)
(* stands for a run of ordinary characters (no comma, quote, line break or *)
(* whitespace): the parser appends each of them verbatim to the current    *)
(* cell (page.tsx:117-119), so the run behaves as one character.           *)
(*                                                                         *)
(* JavaScript arrays are 0-based and TLA+ sequences 1-based: the element   *)
(* the code calls rows[i] is rows[i + 1] here.  Operators that carry a     *)
(* JavaScript index say so.                                                *)
(***************************************************************************)
EXTENDS Integers, Sequences, FiniteSets, TLC

VARIABLES
    \* ---- parseCSV applied to one text (ParseSpec) ----
    csvText,        \* the argument text of parseCSV
    csvRows,        \* the local array rows when the scan has ended
    csvCards,       \* the returned array data
    csvDone,        \* whether parseCSV has returned
    csvBlank,       \* the text with one more blank line, and its parse
    \* ---- one typed answer graded by checkInput (NormSpec) ----
    normAnswer,     \* currentCard.answer
    normInput,      \* inputVal
    normVaried,     \* history: inputVal is the answer up to case, width and
                    \* white space (it was made from it by ChangeCase,
                    \* ChangeWidth, InsertSpace and DeleteSpace alone)
    normResult,     \* inputResult: "null", "CORRECT" or "WRONG"
    \* ---- the deck computation of handleStartGame (SelSpec) ----
    selSource,      \* sourceCards
    selSettings,    \* newSettings: order, startIndex, limit
    selSourceAfter, \* the array sourceCards after the computation
    selOrdered,     \* deck after the ordering step (page.tsx:246-253)
    selDeck,        \* deck after the limit (page.tsx:256-258)
    selDone,        \* whether the computation has run
    \* ---- FlashcardApp, AppContent, SetupScreen, GameScreen (Spec) ----
    loading,        \* FlashcardApp: loading
    allCards,       \* FlashcardApp: allCards
    currentScreen,  \* FlashcardApp: currentScreen
    wrongHistory,   \* FlashcardApp: wrongHistory, a function from its keys
    playQueue,      \* FlashcardApp: playQueue
    gameResults,    \* FlashcardApp: gameResults
    setupSource,    \* FlashcardApp: setupSource
    settingsMode,   \* AppContent: settings.mode, the one field of settings
                    \* that is read (page.tsx:545, 589, 641); darkMode
                    \* (page.tsx:74) only picks a style sheet class and is
                    \* left out
    setup,          \* SetupScreen: mode, order, limit, startIndex
    game,           \* GameScreen: index, showAnswer, inputVal, results,
                    \* inputResult
    alerted,        \* the last handler has shown the alert of page.tsx:261
    \* history, written by no handler
    answeredWrong,  \* per identifier, the incorrect answers given so far
    sessionWrong,   \* the same, in the session being played
    finishedWrong,  \* the same, in the sessions played to their last card
    queueSource,    \* setupSource when playQueue was last set
    sessions,       \* the sessions started so far
    fetched,        \* how the fetch of /way.csv ended, and the text it gave
    setupVia,       \* the screen whose button opened the setup screen shown
    \* ---- Home of src/unnamed/part_000 (HomeSpec) ----
    home,           \* Home: allCards, playCards, currentIndex, showAnswer,
                    \* loading, wrongIds, isFinished
    homeLast        \* history: the handler that ran last, and isFinished
                    \* and currentIndex when it was called

parseVars == <<csvText, csvRows, csvCards, csvDone, csvBlank>>
normVars == <<normAnswer, normInput, normVaried, normResult>>

selVars ==
    <<selSource, selSettings, selSourceAfter, selOrdered, selDeck, selDone>>

appVars ==
    <<loading, allCards, currentScreen, wrongHistory, playQueue, gameResults,
      setupSource, settingsMode, setup, game, alerted>>
historyVars ==
    <<answeredWrong, sessionWrong, finishedWrong, queueSource, sessions,
      fetched, setupVia>>

homeVars == <<home, homeLast>>

vars == <<parseVars, normVars, selVars, appVars, historyVars, homeVars>>

-----------------------------------------------------------------------------
(* Characters *)

COMMA == ","
DQ == "\""
LF == "\n"
CR == "\r"
SP == " "
\* U+3000 IDEOGRAPHIC SPACE
IDEO_SP == "U+3000"

\* U+FF21 FULLWIDTH LATIN CAPITAL LETTER A and U+FF41, its small letter
FW_A == "U+FF21"
FW_SMALL_A == "U+FF41"
\* U+FF88 HALFWIDTH KATAKANA LETTER NE and U+30CD KATAKANA LETTER NE
HW_NE == "U+FF88"
NE == "U+30CD"
\* U+0308 COMBINING DIAERESIS, and the letters a and A composed with it
COMB == "U+0308"
A_UML == "U+00E4"
CAP_A_UML == "U+00C4"
\* U+00A8 DIAERESIS, the spacing form: its compatibility decomposition is a
\* space followed by U+0308
DIAERESIS == "U+00A8"
\* The JavaScript value undefined where a string is expected (not a string:
\* no string of the model holds this token).
Undefined == <<"undefined">>

\* What String.prototype.trim and the regular expression class \s treat as
\* white space, among the characters of the model.
WhiteSpace == {SP, LF, CR, IDEO_SP}

-----------------------------------------------------------------------------
(* String.prototype.trim *)

RECURSIVE TrimStart(_)
TrimStart(s) ==
    IF s # <<>> /\ Head(s) \in WhiteSpace THEN TrimStart(Tail(s)) ELSE s

RECURSIVE TrimEnd(_)
TrimEnd(s) ==
    IF s # <<>> /\ s[Len(s)] \in WhiteSpace
    THEN TrimEnd(SubSeq(s, 1, Len(s) - 1))
    ELSE s

Trim(s) == TrimEnd(TrimStart(s))

-----------------------------------------------------------------------------
(* normalizeString *)

\* The compatibility decomposition of one character (Unicode data, as
\* String.prototype.normalize('NFKC') applies it at page.tsx:55).
Decompose1(c) ==
    CASE c = FW_A -> <<"A">>
      [] c = FW_SMALL_A -> <<"a">>
      [] c = IDEO_SP -> <<SP>>
      [] c = HW_NE -> <<NE>>
      [] c = A_UML -> <<"a", COMB>>
      [] c = CAP_A_UML -> <<"A", COMB>>
      [] c = DIAERESIS -> <<SP, COMB>>
      [] OTHER -> <<c>>

RECURSIVE Decompose(_)
Decompose(s) ==
    IF s = <<>> THEN <<>> ELSE Decompose1(Head(s)) \o Decompose(Tail(s))

\* The canonical composition: a combining diaeresis composes with the letter
\* a or A directly before it, and with nothing else.
RECURSIVE Compose(_, _)
Compose(done, rest) ==
    IF rest = <<>> THEN done
    ELSE LET c == Head(rest)
             last == IF done = <<>> THEN "" ELSE done[Len(done)]
         IN  IF c = COMB /\ last \in {"a", "A"}
             THEN Compose(SubSeq(done, 1, Len(done) - 1)
                            \o <<IF last = "a" THEN A_UML ELSE CAP_A_UML>>,
                          Tail(rest))
             ELSE Compose(Append(done, c), Tail(rest))

\* String.prototype.normalize('NFKC') (page.tsx:55).
NFKC(s) == Compose(<<>>, Decompose(s))

ToLowerChar(c) ==
    CASE c = "A" -> "a"
      [] c = CAP_A_UML -> A_UML
      [] c = FW_A -> FW_SMALL_A
      [] OTHER -> c

\* String.prototype.toLowerCase (page.tsx:56).
ToLowerCase(s) == [k \in 1..Len(s) |-> ToLowerChar(s[k])]

IsNotWhiteSpace(c) == c \notin WhiteSpace

\* replace(/\s+/g, '') (page.tsx:57).
RemoveWhiteSpace(s) == SelectSeq(s, IsNotWhiteSpace)

\* normalizeString with the white space removed before the compatibility
\* normalisation instead of after it.
normalizeStringSpacesFirst(str) ==
    IF str = Undefined \/ str = <<>> THEN <<>>
    ELSE ToLowerCase(NFKC(RemoveWhiteSpace(Trim(str))))

\* normalizeString without the toLowerCase step.
normalizeStringCaseSensitive(str) ==
    IF str = Undefined \/ str = <<>> THEN <<>>
    ELSE RemoveWhiteSpace(NFKC(Trim(str)))

\* page.tsx:51-58.
normalizeString(str) ==
    IF str = Undefined \/ str = <<>> THEN <<>>
    ELSE RemoveWhiteSpace(ToLowerCase(NFKC(Trim(str))))

\* page.tsx:529-536: the verdict checkInput stores in inputResult.
checkInput(inputVal, answer) ==
    IF normalizeString(inputVal) = normalizeString(answer)
    THEN "CORRECT" ELSE "WRONG"

-----------------------------------------------------------------------------
(* shuffleArray and the deck computation of handleStartGame *)

\* Array.prototype.slice(start, end) on a sequence, start and end JavaScript
\* indices (a negative one counts from the end).
Slice(arr, start, end) ==
    LET n == Len(arr)
        from == IF start < 0 THEN (IF n + start < 0 THEN 0 ELSE n + start)
                ELSE (IF start > n THEN n ELSE start)
        to == IF end < 0 THEN (IF n + end < 0 THEN 0 ELSE n + end)
              ELSE (IF end > n THEN n ELSE end)
    IN  SubSeq(arr, from + 1, to)

\* The swap with the second assignment lost: newArr[i] = newArr[j] only.
SwapOverwrite(newArr, i, j) == [newArr EXCEPT ![i + 1] = newArr[j + 1]]

\* page.tsx:65: [newArr[i], newArr[j]] = [newArr[j], newArr[i]], i and j
\* JavaScript indices.
Swap(newArr, i, j) ==
    [newArr EXCEPT ![i + 1] = newArr[j + 1], ![j + 1] = newArr[i + 1]]

\* The values Math.floor(Math.random() * (i + 1)) can take in one call of
\* shuffleArray on n elements: js[i] in 0..i for each i of the loop.
RandomChoices(n) ==
    {js \in [1..n - 1 -> 0..n - 1] : \A i \in 1..n - 1 : js[i] <= i}

\* page.tsx:63-66: the loop from JavaScript index i down.
RECURSIVE ShuffleFrom(_, _, _)
ShuffleFrom(newArr, i, js) ==
    IF ~(i > 0) THEN newArr
    ELSE ShuffleFrom(Swap(newArr, i, js[i]), i - 1, js)

\* shuffleArray shuffling its argument itself.
shuffleArrayInPlace(array, js) ==
    [array |-> ShuffleFrom(array, Len(array) - 1, js),
     newArr |-> ShuffleFrom(array, Len(array) - 1, js)]

\* page.tsx:61-68: the argument array after the call and the array returned.
shuffleArray(array, js) ==
    [array |-> array,
     newArr |-> ShuffleFrom(array, Len(array) - 1, js)]

\* GameSettings.limit: 'ALL' or a number.
LimitAll == [all |-> TRUE, n |-> 0]
LimitOf(n) == [all |-> FALSE, n |-> n]

\* The ordering step without the start position.
OrderDeckFromStart(deck, newSettings, js) ==
    IF newSettings.order = "RANDOM"
    THEN shuffleArray(deck, js)
    ELSE [array |-> deck, newArr |-> deck]

\* page.tsx:246-253: the argument deck after the step and the new deck.
OrderDeck(deck, newSettings, js) ==
    IF newSettings.order = "RANDOM"
    THEN shuffleArray(deck, js)
    ELSE [array |-> deck,
          newArr |-> IF newSettings.startIndex > 0
                     THEN Slice(deck, newSettings.startIndex, Len(deck))
                     ELSE deck]

\* page.tsx:256-258.
LimitDeck(deck, newSettings) ==
    IF ~newSettings.limit.all THEN Slice(deck, 0, newSettings.limit.n)
    ELSE deck

\* The limit applied to the source before the ordering.
BuildDeckLimitFirst(sourceCards, newSettings, js) ==
    OrderDeck(LimitDeck(sourceCards, newSettings), newSettings, js).newArr

\* page.tsx:243-258: deck from sourceCards.
BuildDeck(sourceCards, newSettings, js) ==
    LimitDeck(OrderDeck(sourceCards, newSettings, js).newArr, newSettings)

-----------------------------------------------------------------------------
(* parseCSV *)

\* The locals of parseCSV before the scan (page.tsx:90-93).
ScanInit ==
    [rows |-> <<>>, currentRow |-> <<>>, currentCell |-> <<>>,
     insideQuotes |-> FALSE]

\* text[i] for a 1-based position i; past the end JavaScript gives undefined.
CharAt(text, i) == IF i \in 1..Len(text) THEN text[i] ELSE "undefined"

\* Every finished row kept.
RetainRowAlways(row) == TRUE

\* page.tsx:112: a finished row is kept unless it is the single empty cell of
\* a blank line.
RetainRow(row) == Len(row) > 1 \/ (Len(row) = 1 /\ row[1] # <<>>)

\* page.tsx:109-116: a row terminator outside quotes.
EndRow(st) ==
    LET row == Append(st.currentRow, st.currentCell)
    IN  [st EXCEPT !.rows = IF RetainRow(row) THEN Append(@, row) ELSE @,
                   !.currentRow = <<>>,
                   !.currentCell = <<>>]

\* page.tsx:106-108: a comma outside quotes.
EndCell(st) ==
    [st EXCEPT !.currentRow = Append(@, st.currentCell), !.currentCell = <<>>]

\* The scan with commas and line breaks ending cells and rows inside quotes
\* too.
RECURSIVE ScanSeparatorsInQuotes(_, _, _)
ScanSeparatorsInQuotes(text, i, st) ==
    IF i > Len(text) THEN st
    ELSE
        LET char == CharAt(text, i)
            nextChar == CharAt(text, i + 1)
        IN  IF char = DQ
            THEN IF st.insideQuotes /\ nextChar = DQ
                 THEN ScanSeparatorsInQuotes(
                          text, i + 2,
                          [st EXCEPT !.currentCell = Append(@, DQ)])
                 ELSE ScanSeparatorsInQuotes(
                          text, i + 1, [st EXCEPT !.insideQuotes = ~@])
            ELSE IF char = COMMA
            THEN ScanSeparatorsInQuotes(text, i + 1, EndCell(st))
            ELSE IF char = CR \/ char = LF
            THEN ScanSeparatorsInQuotes(
                     text, IF char = CR /\ nextChar = LF THEN i + 2 ELSE i + 1,
                     EndRow(st))
            ELSE ScanSeparatorsInQuotes(
                     text, i + 1, [st EXCEPT !.currentCell = Append(@, char)])

\* The scan with every double quote switching the quoted mode.
RECURSIVE ScanEveryQuoteToggles(_, _, _)
ScanEveryQuoteToggles(text, i, st) ==
    IF i > Len(text) THEN st
    ELSE
        LET char == CharAt(text, i)
            nextChar == CharAt(text, i + 1)
        IN  IF char = DQ
            THEN ScanEveryQuoteToggles(
                     text, i + 1, [st EXCEPT !.insideQuotes = ~@])
            ELSE IF char = COMMA /\ ~st.insideQuotes
            THEN ScanEveryQuoteToggles(text, i + 1, EndCell(st))
            ELSE IF (char = CR \/ char = LF) /\ ~st.insideQuotes
            THEN ScanEveryQuoteToggles(
                     text, IF char = CR /\ nextChar = LF THEN i + 2 ELSE i + 1,
                     EndRow(st))
            ELSE ScanEveryQuoteToggles(
                     text, i + 1, [st EXCEPT !.currentCell = Append(@, char)])

\* page.tsx:95-120: the scan from position i (1-based) on.
RECURSIVE Scan(_, _, _)
Scan(text, i, st) ==
    IF i > Len(text) THEN st
    ELSE
        LET char == CharAt(text, i)
            nextChar == CharAt(text, i + 1)
        IN  IF char = DQ
            THEN IF st.insideQuotes /\ nextChar = DQ
                 THEN Scan(text, i + 2,
                           [st EXCEPT !.currentCell = Append(@, DQ)])
                 ELSE Scan(text, i + 1,
                           [st EXCEPT !.insideQuotes = ~@])
            ELSE IF char = COMMA /\ ~st.insideQuotes
            THEN Scan(text, i + 1, EndCell(st))
            ELSE IF (char = CR \/ char = LF) /\ ~st.insideQuotes
            THEN Scan(text, IF char = CR /\ nextChar = LF THEN i + 2 ELSE i + 1,
                      EndRow(st))
            ELSE Scan(text, i + 1,
                      [st EXCEPT !.currentCell = Append(@, char)])

\* page.tsx:121-124: the row in progress at the end of the text.
FlushLast(st) ==
    IF st.currentCell # <<>> \/ Len(st.currentRow) > 0
    THEN [st EXCEPT !.rows = Append(@, Append(st.currentRow, st.currentCell)),
                    !.currentRow = Append(st.currentRow, st.currentCell)]
    ELSE st

\* The array rows after page.tsx:95-124.
ScanRows(text) == FlushLast(Scan(text, 1, ScanInit)).rows

\* MakeCard numbering the rows from 1 with the header as row 1.
MakeCardLineNumber(i, row) ==
    [id |-> i + 1, question |-> Trim(row[1]), answer |-> Trim(row[2])]

\* MakeCard with the number of fields of the row as the identifier.
MakeCardFieldCount(i, row) ==
    [id |-> Len(row), question |-> Trim(row[1]), answer |-> Trim(row[2])]

\* page.tsx:130-134: the card pushed for rows[i], i the JavaScript index.
MakeCard(i, row) ==
    [id |-> i, question |-> Trim(row[1]), answer |-> Trim(row[2])]

\* The loop asking a row for three fields.
RECURSIVE CardsFromThreeFields(_, _, _)
CardsFromThreeFields(rows, i, data) ==
    IF ~(i < Len(rows)) THEN data
    ELSE LET row == rows[i + 1]
         IN  CardsFromThreeFields(
                 rows, i + 1,
                 IF Len(row) >= 3 THEN Append(data, MakeCard(i, row))
                 ELSE data)

\* page.tsx:127-136: the loop from JavaScript index i on.
RECURSIVE CardsFrom(_, _, _)
CardsFrom(rows, i, data) ==
    IF ~(i < Len(rows)) THEN data
    ELSE LET row == rows[i + 1]
         IN  CardsFrom(rows, i + 1,
                       IF Len(row) >= 2 THEN Append(data, MakeCard(i, row))
                       ELSE data)

\* RowsToCards without the header skipped.
RowsToCardsWithHeader(rows) == CardsFrom(rows, 0, <<>>)

\* page.tsx:126-137.
RowsToCards(rows) == CardsFrom(rows, 1, <<>>)

parseCSV(text) == RowsToCards(ScanRows(text))

-----------------------------------------------------------------------------
(* The texts parseCSV is applied to *)

\* Longest text of the exhaustive part: every text over ParseChars up to
\* this length.
MaxText == 4
\* Most lines of a text made of whole lines.
MaxLines == 4

ParseChars == {"a", COMMA, DQ, LF, CR, SP}

ShortTexts == UNION {[1..n -> ParseChars] : n \in 0..MaxText}

\* Whole lines: two fields, two other fields, one field, a blank line, three
\* fields with padding, a quoted field holding a comma and a line break.
LineTemplates ==
    { <<"a", COMMA, "b">>,
      <<"c", COMMA, "d">>,
      <<"e">>,
      <<>>,
      <<SP, "f", COMMA, "g", SP, COMMA, "h">>,
      <<DQ, "i", COMMA, LF, DQ, COMMA, "j">> }

RECURSIVE JoinLines(_, _)
JoinLines(lines, lastTerminated) ==
    IF lines = <<>> THEN <<>>
    ELSE IF Len(lines) = 1
         THEN lines[1] \o (IF lastTerminated THEN <<LF>> ELSE <<>>)
         ELSE lines[1] \o <<LF>> \o JoinLines(Tail(lines), lastTerminated)

LineTexts ==
    { JoinLines(ls, t) :
        ls \in UNION {[1..n -> LineTemplates] : n \in 0..MaxLines},
        t \in BOOLEAN }

\* "Q,A\nApple,<ringo>\n", <ringo> the three hiragana of the sample's first
\* answer (page.tsx:37), and the same text with CR LF line ends.
ExampleText ==
    <<"Q", COMMA, "A", LF, "Apple", COMMA, "ringo", LF>>
ExampleTextCRLF ==
    <<"Q", COMMA, "A", CR, LF, "Apple", COMMA, "ringo", CR, LF>>

\* Longest content between the quotes of a text that is one quoted field.
MaxBody == 4

\* What stands between the quotes: ordinary characters, commas, line breaks
\* and double quotes.
BodyChars == {"a", COMMA, LF, CR, DQ}

\* One quoted field and nothing else.
QuotedTexts ==
    {<<DQ>> \o body \o <<DQ>> :
        body \in UNION {[1..n -> BodyChars] : n \in 0..MaxBody}}

\* The quoted field a,b<LF>c, and the quoted field he said ""hi"".
QuotedExample == <<DQ, "a", COMMA, "b", LF, "c", DQ>>
DoubledExample == <<DQ, "he", SP, "said", SP, DQ, DQ, "hi", DQ, DQ, DQ>>

\* The row terminators of page.tsx:109-110.
Terminators == {<<LF>>, <<CR>>, <<CR, LF>>}

\* The first i characters of the text hold an even number of double quotes:
\* the scan is outside quotes after them (a pair of quotes inside a quoted
\* field leaves it inside, page.tsx:100-102).
OutsideQuotesAfter(text, i) ==
    Cardinality({k \in 1..i : text[k] = DQ}) % 2 = 0

\* The text with an empty line more: a terminator put in front of the text or
\* behind a CR or LF that stands outside quotes, or two terminators put
\* behind a last line that has none.
BlankLineInsertions(text) ==
    {SubSeq(text, 1, i) \o x \o SubSeq(text, i + 1, Len(text)) :
        i \in {0} \cup {k \in 1..Len(text) :
                           /\ text[k] \in {LF, CR}
                           /\ OutsideQuotesAfter(text, k)},
        x \in Terminators}
    \cup
    (IF /\ text # <<>>
        /\ text[Len(text)] \notin {LF, CR}
        /\ OutsideQuotesAfter(text, Len(text))
     THEN {text \o x \o y : x, y \in Terminators}
     ELSE {})

ParseTexts ==
    ShortTexts \cup LineTexts \cup QuotedTexts
        \cup {ExampleText, ExampleTextCRLF, QuotedExample, DoubledExample}

-----------------------------------------------------------------------------
(* The strings normalizeString is applied to *)

\* Longest answer and longest typed input.
MaxStr == 3

NormChars == {"a", "A", "b", HW_NE, NE, SP, COMB, DIAERESIS}

NormStrings == UNION {[1..n -> NormChars] : n \in 0..MaxStr}

\* The other case of a letter, the other width of a character.
OtherCase(c) ==
    CASE c = "a" -> {"A"} [] c = "A" -> {"a"} [] OTHER -> {}
OtherWidth(c) ==
    CASE c = "A" -> {FW_A} [] c = FW_A -> {"A"}
      [] c = NE -> {HW_NE} [] c = HW_NE -> {NE}
      [] OTHER -> {}

ReplaceAt(s, k, c) == [s EXCEPT ![k] = c]
InsertAt(s, k, c) == SubSeq(s, 1, k - 1) \o <<c>> \o SubSeq(s, k, Len(s))
DeleteAt(s, k) == SubSeq(s, 1, k - 1) \o SubSeq(s, k + 1, Len(s))

\* Typed inputs that are not the answer in another case, width or spacing.
OtherInputs == {<<>>, <<"b">>, <<"a", COMB>>, <<A_UML>>, <<NE, "b">>}

-----------------------------------------------------------------------------
(* The sources and settings the deck computation is applied to *)

\* Most cards of a source list.
MaxSel == 4
\* Largest numeric limit.
MaxLimit == 3

SelCard(i) == [id |-> i, question |-> <<"q">>, answer |-> <<"a">>]

\* The cards of a set of identifiers in increasing order, as parseCSV and the
\* filter of page.tsx:241 give them.
RECURSIVE CardsOf(_)
CardsOf(ids) ==
    IF ids = {} THEN <<>>
    ELSE LET m == CHOOSE x \in ids : \A y \in ids : y <= x
         IN  Append(CardsOf(ids \ {m}), SelCard(m))

SelSources == {CardsOf(ids) : ids \in SUBSET (1..MaxSel)}

\* Start positions the number input of page.tsx:464-471 can hold: min and max
\* are hints of the control, a typed value is taken as it is.
SelStarts == -1..MaxSel + 1

SelLimits == {LimitAll} \cup {LimitOf(n) : n \in 1..MaxLimit}

SelIdle ==
    /\ selSource = <<>>
    /\ selSettings = [order |-> "RANDOM", startIndex |-> 0, limit |-> LimitAll]
    /\ selSourceAfter = <<>>
    /\ selOrdered = <<>>
    /\ selDeck = <<>>
    /\ selDone = FALSE

-----------------------------------------------------------------------------
(* The application: its data and its initial state *)

\* Most cards of a master list a session is played on.
MaxCards == 2
\* Most sessions started.
MaxSessions == 3

\* page.tsx:36-46, each word one token; the text has no final line break.
SampleLines ==
    << <<"Question", COMMA, "Answer">>,
       <<"Apple", COMMA, "ringo">>,
       <<"Computer", COMMA, "konpyuta">>,
       <<"Japan", COMMA, "nihon">>,
       <<"Artificial", SP, "Intelligence", COMMA, "jinkouchinou">>,
       <<"Network", COMMA, "nettowaku">>,
       <<"Database", COMMA, "detabesu">>,
       <<"Algorithm", COMMA, "arugorizumu">>,
       <<"Security", COMMA, "sekyuriti">>,
       <<"Programming", COMMA, "puroguramingu">>,
       <<"Cloud", COMMA, "kuraudo">> >>

SAMPLE_CSV == JoinLines(SampleLines, FALSE)

\* A file with a one-field row and a blank line between its records.
GappedText ==
    <<"Q", COMMA, "A", LF, "Apple", COMMA, "ringo", LF, "Lonely", LF, LF,
      "Japan", COMMA, "nihon", LF>>

\* The texts /way.csv may hold: the header of the sample with none or one of
\* its records, and the file with gaps, which has two records.
FetchTexts ==
    {JoinLines(SubSeq(SampleLines, 1, n + 1), TRUE) : n \in {0, 1}}
        \cup {GappedText}

\* page.tsx:480: the limits the buttons of SetupScreen set.
SetupLimits == {LimitOf(10), LimitOf(20), LimitOf(50), LimitAll}

\* Start positions typed into the input of page.tsx:464-471.
SetupStarts == {0, 1, 2}

\* page.tsx:395-398.
SetupInitial ==
    [mode |-> "FLASHCARD", order |-> "RANDOM", limit |-> LimitAll,
     startIndex |-> 0]

\* page.tsx:515-519.
GameInitial ==
    [index |-> 0, showAnswer |-> FALSE, inputVal |-> <<>>, results |-> <<>>,
     inputResult |-> "null"]

\* What is typed as the answer to a card: the answer after a space.  The
\* box left empty is the other input.
GameInputs(card) == {<<SP>> \o card.answer}

\* A Record<number, number>: the count under a key, 0 for a missing key
\* (page.tsx:241, 277: wrongHistory[id] || 0).
CountOf(h, id) == IF id \in DOMAIN h THEN h[id] ELSE 0

\* page.tsx:277: newHistory[id] = (newHistory[id] || 0) + 1.
HistoryBumped(h, id) ==
    [x \in DOMAIN h \cup {id} |-> IF x = id THEN CountOf(h, id) + 1 ELSE h[x]]

\* page.tsx:274-279: the history after the forEach over results from the
\* k-th result (1-based) on.
RECURSIVE HistoryAfter(_, _, _)
HistoryAfter(h, results, k) ==
    IF k > Len(results) THEN h
    ELSE HistoryAfter(IF ~results[k].isCorrect
                      THEN HistoryBumped(h, results[k].cardId)
                      ELSE h,
                      results, k + 1)

\* The tallies of the history variables.
Tally(h, id) == IF id \in DOMAIN h THEN h[id] ELSE 0
TallyOneMore(h, id) ==
    [x \in DOMAIN h \cup {id} |-> IF x = id THEN Tally(h, id) + 1 ELSE h[x]]
TallySum(g, h) ==
    [x \in DOMAIN g \cup DOMAIN h |-> Tally(g, x) + Tally(h, x)]
NoTally == <<>>

\* sourceCards taken from the master list whatever the source.
SourceCardsAlways(source, cards, history) == cards

\* page.tsx:239-241: sourceCards.
SourceCards(source, cards, history) ==
    IF source = "ALL" THEN cards
    ELSE LET missed(c) == CountOf(history, c.id) > 0
         IN  SelectSeq(cards, missed)

\* The test of page.tsx:260 left out.
DeckRefusedNever(deck) == FALSE

\* page.tsx:260: the deck a session is not started on.
DeckRefused(deck) == Len(deck) = 0

\* The result keyed by the position in the queue instead of the card.
MakeResultByIndex(card, index, isCorrect, mode, inputVal) ==
    [cardId |-> index, isCorrect |-> isCorrect,
     userAnswer |-> IF mode = "INPUT" THEN inputVal ELSE Undefined]

\* The typed text stored whatever the mode.
MakeResultAlwaysTyped(card, index, isCorrect, mode, inputVal) ==
    [cardId |-> card.id, isCorrect |-> isCorrect, userAnswer |-> inputVal]

\* page.tsx:542-546: newResult.
MakeResult(card, index, isCorrect, mode, inputVal) ==
    [cardId |-> card.id, isCorrect |-> isCorrect,
     userAnswer |-> IF mode = "INPUT" THEN inputVal ELSE Undefined]

AppIdle ==
    /\ loading = TRUE
    /\ allCards = <<>>
    /\ currentScreen = "MENU"
    /\ wrongHistory = <<>>
    /\ playQueue = <<>>
    /\ gameResults = <<>>
    /\ setupSource = "ALL"
    /\ settingsMode = "FLASHCARD"
    /\ setup = SetupInitial
    /\ game = GameInitial
    /\ alerted = FALSE
    /\ answeredWrong = NoTally
    /\ sessionWrong = NoTally
    /\ finishedWrong = NoTally
    /\ queueSource = "ALL"
    /\ sessions = 0
    /\ fetched = [state |-> "pending", text |-> <<>>]
    /\ setupVia = "none"

\* Most records of the file Home fetches.
MaxHome == 3

\* The texts /way.csv may hold for Home: the header of the sample with none
\* to MaxHome of its records, and the file with gaps.
HomeTexts ==
    {JoinLines(SubSeq(SampleLines, 1, n + 1), TRUE) : n \in 0..MaxHome}
        \cup {GappedText}

\* part_000:13-20: the state of Home after construction.
HomeInitial ==
    [allCards |-> <<>>, playCards |-> <<>>, currentIndex |-> 0,
     showAnswer |-> FALSE, loading |-> TRUE, wrongIds |-> {},
     isFinished |-> FALSE]

NoHandler == [handler |-> "none", isFinished |-> FALSE, currentIndex |-> 0]

HomeIdle ==
    /\ home = HomeInitial
    /\ homeLast = NoHandler

-----------------------------------------------------------------------------
(* ParseSpec: parseCSV applied to one text *)

NoBlank == [done |-> FALSE, text |-> <<>>, rows |-> <<>>, cards |-> <<>>]

ParseIdle ==
    /\ csvText = <<>>
    /\ csvRows = <<>>
    /\ csvCards = <<>>
    /\ csvDone = FALSE
    /\ csvBlank = NoBlank

NormIdle ==
    /\ normAnswer = <<>>
    /\ normInput = <<>>
    /\ normVaried = TRUE
    /\ normResult = "null"

ParseInit ==
    /\ csvText \in ParseTexts
    /\ csvRows = <<>>
    /\ csvCards = <<>>
    /\ csvDone = FALSE
    /\ csvBlank = NoBlank
    /\ NormIdle
    /\ SelIdle
    /\ AppIdle
    /\ HomeIdle

ParseCall ==
    /\ ~csvDone
    /\ csvRows' = ScanRows(csvText)
    /\ csvCards' = RowsToCards(csvRows')
    /\ csvDone' = TRUE
    /\ UNCHANGED <<csvText, csvBlank, normVars, selVars, appVars,
                   historyVars, homeVars>>

\* parseCSV applied to the text with an empty line more.
ParseCallBlankLine ==
    /\ csvDone
    /\ ~csvBlank.done
    /\ \E text \in BlankLineInsertions(csvText) :
          LET rows == ScanRows(text)
          IN  csvBlank' = [done |-> TRUE, text |-> text, rows |-> rows,
                           cards |-> RowsToCards(rows)]
    /\ UNCHANGED <<csvText, csvRows, csvCards, csvDone, normVars, selVars,
                   appVars, historyVars, homeVars>>

ParseNext ==
    \/ ParseCall
    \/ ParseCallBlankLine

ParseSpec == ParseInit /\ [][ParseNext]_vars

-----------------------------------------------------------------------------
(* NormSpec: one card of a typed-answer session.  The answer is any string *)
(* (or absent); the input starts as the answer and is retyped in another   *)
(* case, width or spacing, or replaced by another input; checkInput grades *)
(* it.                                                                     *)

NormInit ==
    /\ normAnswer \in NormStrings \cup {Undefined}
    /\ normInput = normAnswer
    /\ normVaried = TRUE
    /\ normResult = "null"
    /\ ParseIdle
    /\ SelIdle
    /\ AppIdle
    /\ HomeIdle

\* page.tsx:596 (onChange): the input retyped with one letter in the other
\* case.
ChangeCase ==
    /\ normResult = "null" /\ normVaried /\ normInput # Undefined
    /\ \E k \in 1..Len(normInput) : \E c \in OtherCase(normInput[k]) :
          normInput' = ReplaceAt(normInput, k, c)
    /\ UNCHANGED <<normAnswer, normVaried, normResult, parseVars, selVars,
                   appVars, historyVars, homeVars>>

\* page.tsx:596: the input retyped with one character in its other width.
ChangeWidth ==
    /\ normResult = "null" /\ normVaried /\ normInput # Undefined
    /\ \E k \in 1..Len(normInput) : \E c \in OtherWidth(normInput[k]) :
          normInput' = ReplaceAt(normInput, k, c)
    /\ UNCHANGED <<normAnswer, normVaried, normResult, parseVars, selVars,
                   appVars, historyVars, homeVars>>

\* page.tsx:596: a space typed somewhere in the input.
InsertSpace ==
    /\ normResult = "null" /\ normVaried /\ normInput # Undefined
    /\ Len(normInput) < MaxStr
    /\ \E k \in 1..Len(normInput) + 1 :
          normInput' = InsertAt(normInput, k, SP)
    /\ UNCHANGED <<normAnswer, normVaried, normResult, parseVars, selVars,
                   appVars, historyVars, homeVars>>

\* page.tsx:596: a white-space character of the input deleted.
DeleteSpace ==
    /\ normResult = "null" /\ normVaried /\ normInput # Undefined
    /\ \E k \in 1..Len(normInput) :
          /\ normInput[k] \in WhiteSpace
          /\ normInput' = DeleteAt(normInput, k)
    /\ UNCHANGED <<normAnswer, normVaried, normResult, parseVars, selVars,
                   appVars, historyVars, homeVars>>

\* page.tsx:596: the input replaced by another one.
Retype ==
    /\ normResult = "null"
    /\ \E v \in OtherInputs : normInput' = v
    /\ normVaried' = FALSE
    /\ UNCHANGED <<normAnswer, normResult, parseVars, selVars,
                   appVars, historyVars, homeVars>>

\* page.tsx:525-538: checkInput (a second submit returns at line 527).
NormCheckInput ==
    /\ normResult = "null"
    /\ normResult' = checkInput(normInput, normAnswer)
    /\ UNCHANGED <<normAnswer, normInput, normVaried, parseVars, selVars,
                   appVars, historyVars, homeVars>>

NormNext ==
    \/ ChangeCase
    \/ ChangeWidth
    \/ InsertSpace
    \/ DeleteSpace
    \/ Retype
    \/ NormCheckInput

NormSpec == NormInit /\ [][NormNext]_vars

-----------------------------------------------------------------------------
(* SelSpec: the deck computation applied to one source and one setting *)

SelInit ==
    /\ selSource \in SelSources
    /\ selSettings \in [order : {"SEQUENTIAL", "RANDOM"},
                         startIndex : SelStarts,
                         limit : SelLimits]
    /\ selSourceAfter = selSource
    /\ selOrdered = <<>>
    /\ selDeck = <<>>
    /\ selDone = FALSE
    /\ ParseIdle
    /\ NormIdle
    /\ AppIdle
    /\ HomeIdle

\* page.tsx:243-258.
SelectCall ==
    /\ ~selDone
    /\ \E js \in RandomChoices(Len(selSource)) :
          LET ordered == OrderDeck(selSource, selSettings, js)
          IN  /\ selSourceAfter' = ordered.array
              /\ selOrdered' = ordered.newArr
              /\ selDeck' = BuildDeck(selSource, selSettings, js)
    /\ selDone' = TRUE
    /\ UNCHANGED <<selSource, selSettings, parseVars, normVars, appVars,
                   historyVars, homeVars>>

SelNext == SelectCall

SelSpec == SelInit /\ [][SelNext]_vars

-----------------------------------------------------------------------------
(* Spec: the application.  /way.csv is fetched and parsed (or the sample is *)
(* parsed), then the user moves between the screens, sets up sessions and   *)
(* answers or leaves them.  A session is started only on a master list of   *)
(* at most MaxCards cards, and at most MaxSessions sessions are started.    *)

Init ==
    /\ AppIdle
    /\ ParseIdle
    /\ NormIdle
    /\ SelIdle
    /\ HomeIdle

OtherSpecsIdle == UNCHANGED <<parseVars, normVars, selVars, homeVars>>

\* page.tsx:285-341: the screen shown next; SetupScreen and GameScreen lose
\* their state when they are no longer rendered.
Show(screen) ==
    /\ currentScreen' = screen
    /\ setup' = IF screen = "SETUP" /\ currentScreen = "SETUP"
                THEN setup ELSE SetupInitial
    /\ game' = IF screen = "GAME" /\ currentScreen = "GAME"
               THEN game ELSE GameInitial
    /\ sessionWrong' = IF screen = "GAME" /\ currentScreen = "GAME"
                       THEN sessionWrong ELSE NoTally
    /\ setupVia' = IF screen # "SETUP" THEN "none"
                   ELSE IF currentScreen = "SETUP" THEN setupVia
                   ELSE currentScreen
    /\ alerted' = FALSE

\* page.tsx:144-153: the fetch succeeds.
FetchOk ==
    /\ loading
    /\ \E text \in FetchTexts :
          /\ allCards' = parseCSV(text)
          /\ fetched' = [state |-> "ok", text |-> text]
    /\ loading' = FALSE
    /\ UNCHANGED <<currentScreen, wrongHistory, playQueue, gameResults,
                   setupSource, settingsMode, setup, game, alerted,
                   answeredWrong, sessionWrong, finishedWrong, queueSource,
                   sessions, setupVia>>
    /\ OtherSpecsIdle

\* The failed fetch leaving the master list empty.
FetchFailEmpty ==
    /\ loading
    /\ allCards' = <<>>
    /\ fetched' = [state |-> "failed", text |-> <<>>]
    /\ loading' = FALSE
    /\ UNCHANGED <<currentScreen, wrongHistory, playQueue, gameResults,
                   setupSource, settingsMode, setup, game, alerted,
                   answeredWrong, sessionWrong, finishedWrong, queueSource,
                   sessions, setupVia>>
    /\ OtherSpecsIdle

\* page.tsx:155-161: the fetch fails.
FetchFail ==
    /\ loading
    /\ allCards' = parseCSV(SAMPLE_CSV)
    /\ fetched' = [state |-> "failed", text |-> <<>>]
    /\ loading' = FALSE
    /\ UNCHANGED <<currentScreen, wrongHistory, playQueue, gameResults,
                   setupSource, settingsMode, setup, game, alerted,
                   answeredWrong, sessionWrong, finishedWrong, queueSource,
                   sessions, setupVia>>
    /\ OtherSpecsIdle

\* page.tsx:178: the title in the header.
HeaderMenu ==
    /\ ~loading
    /\ Show("MENU")
    /\ UNCHANGED <<loading, allCards, wrongHistory, playQueue, gameResults,
                   setupSource, settingsMode, answeredWrong, finishedWrong,
                   queueSource, sessions, fetched>>
    /\ OtherSpecsIdle

\* A handler that sets setupSource and shows SetupScreen
\* (page.tsx:291, 292, 319-323, 333-336).
OpenSetup(source) ==
    /\ setupSource' = source
    /\ Show("SETUP")
    /\ UNCHANGED <<loading, allCards, wrongHistory, playQueue, gameResults,
                   settingsMode, answeredWrong, finishedWrong, queueSource,
                   sessions, fetched>>
    /\ OtherSpecsIdle

\* A handler that only shows the menu (page.tsx:302, 311, 324, 332).
BackToMenu ==
    /\ Show("MENU")
    /\ UNCHANGED <<loading, allCards, wrongHistory, playQueue, gameResults,
                   setupSource, settingsMode, answeredWrong, finishedWrong,
                   queueSource, sessions, fetched>>
    /\ OtherSpecsIdle

\* page.tsx:290: Object.keys(wrongHistory).length.
WrongCount == Cardinality(DOMAIN wrongHistory)

\* page.tsx:291.
MenuStartAll ==
    /\ ~loading /\ currentScreen = "MENU"
    /\ OpenSetup("ALL")

\* page.tsx:292, 367.
MenuStartWrong ==
    /\ ~loading /\ currentScreen = "MENU"
    /\ WrongCount # 0
    /\ OpenSetup("WRONG")

\* page.tsx:293.
MenuShowWrongList ==
    /\ ~loading /\ currentScreen = "MENU"
    /\ Show("WRONG_LIST")
    /\ UNCHANGED <<loading, allCards, wrongHistory, playQueue, gameResults,
                   setupSource, settingsMode, answeredWrong, finishedWrong,
                   queueSource, sessions, fetched>>
    /\ OtherSpecsIdle

\* page.tsx:745: wrongCards of WrongListScreen.
WrongCards ==
    LET missed(c) == CountOf(wrongHistory, c.id) > 0
    IN  SelectSeq(allCards, missed)

\* page.tsx:332, 751.
WrongListBack ==
    /\ ~loading /\ currentScreen = "WRONG_LIST"
    /\ BackToMenu

\* page.tsx:333-336, 756.
WrongListStartReview ==
    /\ ~loading /\ currentScreen = "WRONG_LIST"
    /\ Len(WrongCards) > 0
    /\ OpenSetup("WRONG")

\* page.tsx:690-691: wrongCount of ResultScreen.
ResultWrongCount ==
    Cardinality({k \in 1..Len(gameResults) : ~gameResults[k].isCorrect})

\* page.tsx:319-323, 723-725.
ResultRetryWrong ==
    /\ ~loading /\ currentScreen = "RESULT"
    /\ ResultWrongCount > 0
    /\ OpenSetup("WRONG")

\* page.tsx:324, 732.
ResultBackToMenu ==
    /\ ~loading /\ currentScreen = "RESULT"
    /\ BackToMenu

\* A change of one field of SetupScreen (page.tsx:395-398).
SetupChange(next) ==
    /\ ~loading /\ currentScreen = "SETUP"
    /\ setup' = next
    /\ alerted' = FALSE
    /\ UNCHANGED <<loading, allCards, currentScreen, wrongHistory, playQueue,
                   gameResults, setupSource, settingsMode, game, historyVars>>
    /\ OtherSpecsIdle

\* page.tsx:419, 427: the two mode buttons.
SetupSetMode ==
    \E m \in {"FLASHCARD", "INPUT"} : SetupChange([setup EXCEPT !.mode = m])

\* page.tsx:444, 452: the two order radio buttons.
SetupSetOrder ==
    \E o \in {"RANDOM", "SEQUENTIAL"} : SetupChange([setup EXCEPT !.order = o])

\* page.tsx:461-471: the start position, shown for the sequential order.
SetupSetStartIndex ==
    /\ setup.order = "SEQUENTIAL"
    /\ \E k \in SetupStarts : SetupChange([setup EXCEPT !.startIndex = k])

\* page.tsx:480-491.
SetupSetLimit ==
    \E l \in SetupLimits : SetupChange([setup EXCEPT !.limit = l])

\* page.tsx:302, 407.
SetupBack ==
    /\ ~loading /\ currentScreen = "SETUP"
    /\ BackToMenu

\* page.tsx:235-268.
handleStartGame(newSettings, js) ==
    LET sourceCards == SourceCards(setupSource, allCards, wrongHistory)
        deck == BuildDeck(sourceCards, newSettings, js)
    IN  /\ settingsMode' = newSettings.mode
        /\ IF DeckRefused(deck)
           THEN /\ alerted' = TRUE
                /\ UNCHANGED <<playQueue, gameResults, currentScreen, setup,
                               game, sessionWrong, queueSource, sessions,
                               setupVia>>
           ELSE /\ playQueue' = deck
                /\ gameResults' = <<>>
                /\ Show("GAME")
                /\ queueSource' = setupSource
                /\ sessions' = sessions + 1
        /\ UNCHANGED <<loading, allCards, wrongHistory, setupSource,
                       answeredWrong, finishedWrong, fetched>>
        /\ OtherSpecsIdle

\* page.tsx:400-402, 501: the start button.
SetupStart ==
    /\ ~loading /\ currentScreen = "SETUP"
    /\ Len(allCards) <= MaxCards
    /\ sessions < MaxSessions
    /\ \E js \in RandomChoices(
                    Len(SourceCards(setupSource, allCards, wrongHistory))) :
          handleStartGame(setup, js)

\* page.tsx:521: currentCard.
CurrentCard == playQueue[game.index + 1]

\* A handler that changes GameScreen's state only.
GameChange(next) ==
    /\ game' = next
    /\ alerted' = FALSE
    /\ UNCHANGED <<loading, allCards, currentScreen, wrongHistory, playQueue,
                   gameResults, setupSource, settingsMode, setup, historyVars>>
    /\ OtherSpecsIdle

\* page.tsx:645.
GameShowAnswer ==
    /\ ~loading /\ currentScreen = "GAME"
    /\ settingsMode = "FLASHCARD" /\ ~game.showAnswer
    /\ GameChange([game EXCEPT !.showAnswer = TRUE])

\* page.tsx:596.
GameSetInputVal ==
    /\ ~loading /\ currentScreen = "GAME"
    /\ settingsMode = "INPUT" /\ ~game.showAnswer
    /\ \E v \in GameInputs(CurrentCard) :
          GameChange([game EXCEPT !.inputVal = v])

\* page.tsx:525-538, 591.
GameCheckInput ==
    /\ ~loading /\ currentScreen = "GAME"
    /\ settingsMode = "INPUT" /\ ~game.showAnswer
    /\ IF game.inputResult # "null"
       THEN GameChange(game)
       ELSE GameChange([game EXCEPT
                          !.inputResult = checkInput(game.inputVal,
                                                     CurrentCard.answer),
                          !.showAnswer = TRUE])

\* page.tsx:270-283.
handleGameFinish(results) ==
    /\ gameResults' = results
    /\ wrongHistory' = HistoryAfter(wrongHistory, results, 1)
    /\ currentScreen' = "RESULT"

\* page.tsx:541-561.
goNext(isCorrect) ==
    LET newResult == MakeResult(CurrentCard, game.index, isCorrect,
                                settingsMode, game.inputVal)
        nextResults == Append(game.results, newResult)
        missed == IF isCorrect THEN sessionWrong
                  ELSE TallyOneMore(sessionWrong, CurrentCard.id)
    IN  /\ answeredWrong' = IF isCorrect THEN answeredWrong
                            ELSE TallyOneMore(answeredWrong, CurrentCard.id)
        /\ IF game.index < Len(playQueue) - 1
           THEN /\ game' = [index |-> game.index + 1, showAnswer |-> FALSE,
                            inputVal |-> <<>>, results |-> nextResults,
                            inputResult |-> "null"]
                /\ sessionWrong' = missed
                /\ UNCHANGED <<gameResults, wrongHistory, currentScreen,
                               finishedWrong>>
           ELSE /\ handleGameFinish(nextResults)
                /\ game' = GameInitial
                /\ sessionWrong' = NoTally
                /\ finishedWrong' = TallySum(finishedWrong, missed)
        /\ alerted' = FALSE
        /\ UNCHANGED <<loading, allCards, playQueue, setupSource,
                       settingsMode, setup, queueSource, sessions, fetched,
                       setupVia>>
        /\ OtherSpecsIdle

\* page.tsx:659, 666: the two buttons under the shown answer.
GameAnswerFlashcard ==
    /\ ~loading /\ currentScreen = "GAME"
    /\ settingsMode = "FLASHCARD" /\ game.showAnswer
    /\ \E isCorrect \in BOOLEAN : goNext(isCorrect)

\* page.tsx:630: the button under the verdict.
GameNextInput ==
    /\ ~loading /\ currentScreen = "GAME"
    /\ settingsMode = "INPUT" /\ game.showAnswer
    /\ goNext(game.inputResult = "CORRECT")

\* page.tsx:311, 681.
GameBack ==
    /\ ~loading /\ currentScreen = "GAME"
    /\ BackToMenu

Next ==
    \/ FetchOk
    \/ FetchFail
    \/ HeaderMenu
    \/ MenuStartAll
    \/ MenuStartWrong
    \/ MenuShowWrongList
    \/ WrongListBack
    \/ WrongListStartReview
    \/ ResultRetryWrong
    \/ ResultBackToMenu
    \/ SetupSetMode
    \/ SetupSetOrder
    \/ SetupSetStartIndex
    \/ SetupSetLimit
    \/ SetupBack
    \/ SetupStart
    \/ GameShowAnswer
    \/ GameSetInputVal
    \/ GameCheckInput
    \/ GameAnswerFlashcard
    \/ GameNextInput
    \/ GameBack

Spec == Init /\ [][Next]_vars

\* The promise of fetch('/way.csv') settles: it resolves or rejects
\* (page.tsx:144-161).
FairSpec == Spec /\ WF_vars(FetchOk \/ FetchFail)

-----------------------------------------------------------------------------
(* HomeSpec: the single-screen version (src/unnamed/part_000).  /way.csv is *)
(* fetched and parsed, then the cards of playCards are shown one at a time  *)
(* and marked, and the finished screen offers a retry of the marked cards,  *)
(* a restart and the way back.  currentIndex is the JavaScript index.       *)

HomeOthersIdle ==
    UNCHANGED <<parseVars, normVars, selVars, appVars, historyVars>>

Called(handler) ==
    [handler |-> handler, isFinished |-> home.isFinished,
     currentIndex |-> home.currentIndex]

\* part_000:158, 159 and 162 do not return: the card is shown (189 on).
HomeCardShown ==
    /\ ~home.loading
    /\ Len(home.playCards) # 0
    /\ ~home.isFinished

\* part_000:158 does not return and 162 does: the finished screen is shown.
HomeFinishedShown ==
    /\ ~home.loading
    /\ home.isFinished

\* part_000:88-97: the fetch resolves.
HomeFetchOk ==
    /\ home.loading
    /\ \E text \in HomeTexts :
          LET data == parseCSV(text)
          IN  home' = [home EXCEPT !.allCards = data, !.playCards = data,
                                   !.loading = FALSE]
    /\ homeLast' = Called("fetchCSV")
    /\ HomeOthersIdle

\* part_000:98-101: the fetch rejects.
HomeFetchFail ==
    /\ home.loading
    /\ home' = [home EXCEPT !.loading = FALSE]
    /\ homeLast' = Called("fetchCSV catch")
    /\ HomeOthersIdle

\* part_000:125-132, applied to the state h.
HomeGoNext(h) ==
    IF h.currentIndex < Len(h.playCards) - 1
    THEN [h EXCEPT !.showAnswer = FALSE, !.currentIndex = @ + 1]
    ELSE [h EXCEPT !.showAnswer = FALSE, !.isFinished = TRUE]

\* part_000:134-140, applied to the state h.
HomeGoBack(h) ==
    IF h.currentIndex > 0
    THEN [h EXCEPT !.showAnswer = FALSE, !.currentIndex = @ - 1,
                   !.isFinished = FALSE]
    ELSE h

\* part_000:226-227.
HomeShowAnswer ==
    /\ HomeCardShown
    /\ ~home.showAnswer
    /\ home' = [home EXCEPT !.showAnswer = TRUE]
    /\ homeLast' = Called("setShowAnswer")
    /\ HomeOthersIdle

\* part_000:109-117, the button of 246-247.
handleCorrect ==
    /\ HomeCardShown
    /\ home.showAnswer
    /\ LET currentCardId == home.playCards[home.currentIndex + 1].id
       IN  home' = HomeGoNext([home EXCEPT
                                  !.wrongIds = @ \ {currentCardId}])
    /\ homeLast' = Called("handleCorrect")
    /\ HomeOthersIdle

\* part_000:119-123, the button of 240-241.
handleWrong ==
    /\ HomeCardShown
    /\ home.showAnswer
    /\ LET currentCardId == home.playCards[home.currentIndex + 1].id
       IN  home' = HomeGoNext([home EXCEPT
                                  !.wrongIds = @ \cup {currentCardId}])
    /\ homeLast' = Called("handleWrong")
    /\ HomeOthersIdle

\* part_000:260-262: the button of the card screen, disabled on the first
\* card.
HomeBackFromCard ==
    /\ HomeCardShown
    /\ home.currentIndex # 0
    /\ home' = HomeGoBack(home)
    /\ homeLast' = Called("goBack")
    /\ HomeOthersIdle

\* part_000:180-182: the button of the finished screen.
HomeBackFromFinished ==
    /\ HomeFinishedShown
    /\ home' = HomeGoBack(home)
    /\ homeLast' = Called("goBack")
    /\ HomeOthersIdle

\* part_000:142-148, the button of 172-176, shown when wrongCount > 0.
startRetry ==
    /\ HomeFinishedShown
    /\ Cardinality(home.wrongIds) > 0
    /\ LET wrongCards ==
               SelectSeq(home.allCards,
                         LAMBDA card : card.id \in home.wrongIds)
       IN  home' = [home EXCEPT !.playCards = wrongCards,
                                !.currentIndex = 0, !.showAnswer = FALSE,
                                !.isFinished = FALSE]
    /\ homeLast' = Called("startRetry")
    /\ HomeOthersIdle

\* part_000:150-156, the button of 177-179.
resetAll ==
    /\ HomeFinishedShown
    /\ home' = [home EXCEPT !.playCards = home.allCards,
                            !.currentIndex = 0, !.showAnswer = FALSE,
                            !.isFinished = FALSE, !.wrongIds = {}]
    /\ homeLast' = Called("resetAll")
    /\ HomeOthersIdle

HomeInit ==
    /\ HomeIdle
    /\ AppIdle
    /\ ParseIdle
    /\ NormIdle
    /\ SelIdle

HomeNext ==
    \/ HomeFetchOk
    \/ HomeFetchFail
    \/ HomeShowAnswer
    \/ handleCorrect
    \/ handleWrong
    \/ HomeBackFromCard
    \/ HomeBackFromFinished
    \/ startRetry
    \/ resetAll

HomeSpec == HomeInit /\ [][HomeNext]_vars

-----------------------------------------------------------------------------
(* Claims about the application (Spec) *)

\* The identifiers of the master list.
CardIds == {allCards[k].id : k \in 1..Len(allCards)}

\* The identifiers a tally or the miss-count table may mention.
KnownIds ==
    CardIds \cup DOMAIN wrongHistory \cup DOMAIN answeredWrong
        \cup DOMAIN finishedWrong

\* The table holds exactly the tallies of t, and no entry below 1.
TableIs(t) ==
    /\ \A id \in DOMAIN wrongHistory : wrongHistory[id] >= 1
    /\ \A id \in KnownIds :
          /\ Tally(wrongHistory, id) = Tally(t, id)
          /\ (id \notin DOMAIN wrongHistory) <=> (Tally(t, id) = 0)

\* C3: whenever no session is being played, the miss count of every record
\* is the number of incorrect answers given to it in all sessions, the
\* abandoned ones included; a record has no entry exactly when it was never
\* answered incorrectly, and no count is below 1.
C3_MissCountIsAllMisses ==
    currentScreen # "GAME" => TableIs(answeredWrong)

\* What the table holds instead: the incorrect answers of the sessions
\* played to their last card (page.tsx:270-283 is the only writer).
MissCountIsFinishedMisses == TableIs(finishedWrong)

\* An incorrect answer of an abandoned session is missing from the table.
AbandonedMissLost ==
    /\ currentScreen = "MENU"
    /\ \E id \in CardIds :
          /\ Tally(answeredWrong, id) = 1
          /\ id \notin DOMAIN wrongHistory

\* C16: loading becomes false; from then on the master list is
\* parseCSV of the fetched text when the fetch succeeded and parseCSV of the
\* sample, ten records, when it failed; once loading is false, it stays
\* false and the master list and the outcome of the fetch stay as they are
\* (no second fetch); and while loading is true no step changes the screen,
\* the setup, the session or any other state of the screens.
C16_StartupEndsLoaded ==
    /\ <>(~loading)
    /\ [](~loading =>
            /\ fetched.state \in {"ok", "failed"}
            /\ fetched.state = "ok" => allCards = parseCSV(fetched.text)
            /\ fetched.state = "failed" =>
                  /\ allCards = parseCSV(SAMPLE_CSV)
                  /\ Len(allCards) = 10)
    /\ [][~loading => /\ ~loading'
                      /\ allCards' = allCards
                      /\ fetched' = fetched]_vars
    /\ [][loading => UNCHANGED <<currentScreen, wrongHistory, playQueue,
                                 gameResults, setupSource, settingsMode,
                                 setup, game, alerted>>]_vars

\* C16: the fetch has failed and the menu is shown over the ten records of
\* the sample.
C16_Witness ==
    /\ ~loading
    /\ fetched.state = "failed"
    /\ currentScreen = "MENU"
    /\ Len(allCards) = 10
    /\ \A k \in 1..10 : allCards[k].id = k

\* The deck the start button would compute is empty, whatever the shuffle.
EmptySelection ==
    LET sourceCards == SourceCards(setupSource, allCards, wrongHistory)
    IN  \A js \in RandomChoices(Len(sourceCards)) :
           BuildDeck(sourceCards, setup, js) = <<>>

\* C4: a start that computes an empty play queue leaves the setup screen
\* shown and the play queue and the last results as they were, and the game
\* screen is never shown with an empty play queue.
C4_EmptyDeckStaysOnSetup ==
    /\ [](currentScreen = "GAME" => playQueue # <<>>)
    /\ [][(SetupStart /\ EmptySelection)
            => /\ currentScreen' = "SETUP"
               /\ playQueue' = playQueue
               /\ gameResults' = gameResults]_vars

\* C4: after a finished session, a start on a non-empty master list was
\* refused; the queue and the results of that session are still there.
C4_Witness ==
    /\ alerted
    /\ currentScreen = "SETUP"
    /\ allCards # <<>>
    /\ playQueue # <<>>
    /\ gameResults # <<>>

\* C5: every identifier with a miss count is the identifier of a record of
\* the master list.
C5_HistoryKeysAreCardIds == DOMAIN wrongHistory \subseteq CardIds

\* C5: of the file with gaps, whose records have the identifiers 1 and 3,
\* the record 3 has a miss count and the record 1 none.
C5_Witness ==
    /\ CardIds = {1, 3}
    /\ DOMAIN wrongHistory = {3}

\* C6: no record is twice in the play queue, every record of it is a record
\* of the master list, and a queue built for the review of the missed
\* records holds only records with a miss count above 0.
C6_QueueFromSourceNoDuplicates ==
    /\ \A i, j \in 1..Len(playQueue) :
          i # j => /\ playQueue[i] # playQueue[j]
                   /\ playQueue[i].id # playQueue[j].id
    /\ \A i \in 1..Len(playQueue) :
          \E k \in 1..Len(allCards) : playQueue[i] = allCards[k]
    /\ queueSource = "WRONG" =>
          \A i \in 1..Len(playQueue) :
             Tally(wrongHistory, playQueue[i].id) > 0

\* C6: a session on the missed records of a master list of two, of which
\* one was missed.
C6_Witness ==
    /\ currentScreen = "GAME"
    /\ queueSource = "WRONG"
    /\ Len(allCards) = 2
    /\ Len(playQueue) = 1
    /\ DOMAIN wrongHistory = {playQueue[1].id}

\* The results are those of the first cards of the play queue, one for each
\* in the order of the queue; in the typed-answer mode each holds the text
\* as it was typed, which checkInput graded, and in the other mode none.
ResultsFollowQueue(results) ==
    /\ Len(results) <= Len(playQueue)
    /\ \A i \in 1..Len(results) :
          /\ results[i].cardId = playQueue[i].id
          /\ IF settingsMode = "INPUT"
             THEN /\ results[i].userAnswer
                        \in GameInputs(playQueue[i]) \cup {<<>>}
                  /\ results[i].isCorrect <=>
                        checkInput(results[i].userAnswer,
                                   playQueue[i].answer) = "CORRECT"
             ELSE results[i].userAnswer = Undefined

\* A step that hands results to handleGameFinish.
FinishStep == currentScreen # "RESULT" /\ currentScreen' = "RESULT"

\* C18: a session is finished by the answer to the last card of the queue
\* and by nothing else; the results then handed over are one per card of
\* the queue, the i-th with the identifier of the i-th card, with the typed
\* text exactly in the typed-answer mode; while the session runs there is
\* one result for each card already answered, and once the result screen
\* is shown no further results are handed over before another session is
\* started.
C18_OneResultPerQueueItem ==
    /\ [](currentScreen = "GAME" =>
            /\ game.index \in 0..Len(playQueue) - 1
            /\ Len(game.results) = game.index
            /\ ResultsFollowQueue(game.results))
    /\ [](currentScreen = "RESULT" =>
            /\ Len(gameResults) = Len(playQueue)
            /\ ResultsFollowQueue(gameResults))
    /\ [][FinishStep =>
            /\ currentScreen = "GAME"
            /\ game.index = Len(playQueue) - 1
            /\ SubSeq(gameResults', 1, game.index) = game.results]_vars
    /\ [][gameResults' # gameResults =>
            \/ FinishStep
            \/ gameResults' = <<>> /\ sessions' = sessions + 1]_vars

\* C18: a typed-answer session on two cards has ended with one answer
\* right and one wrong.
C18_Witness ==
    /\ currentScreen = "RESULT"
    /\ settingsMode = "INPUT"
    /\ Len(gameResults) = 2
    /\ gameResults[1].isCorrect
    /\ ~gameResults[2].isCorrect
    /\ gameResults[1].userAnswer = <<SP>> \o playQueue[1].answer

\* The identifiers of the records answered incorrectly in the results.
WrongIdsOf(results) ==
    {results[i].cardId : i \in {j \in 1..Len(results) : ~results[j].isCorrect}}

\* A session is started from the setup screen that the button of the result
\* screen opened, with no limit and no record skipped by a start position.
RetryStartStep ==
    /\ setupVia = "RESULT"
    /\ currentScreen = "SETUP"
    /\ currentScreen' = "GAME"
    /\ setup.limit.all
    /\ setup.order = "RANDOM" \/ setup.startIndex <= 0

\* C19: the session started after 'review only the questions I got wrong
\* (N)' with no limit plays exactly the N records answered incorrectly in
\* the session that has just finished, whatever was played before.
C19_RetryQueueIsLastWrong ==
    [][RetryStartStep =>
         /\ Len(playQueue') = ResultWrongCount
         /\ {playQueue'[i].id : i \in 1..Len(playQueue')}
               = WrongIdsOf(gameResults)]_vars

\* What that session plays instead: every record of the master list with a
\* miss count, those missed in earlier sessions included (page.tsx:239-241).
RetryQueueIsAllMissed ==
    [][RetryStartStep =>
         {playQueue'[i].id : i \in 1..Len(playQueue')}
           = DOMAIN wrongHistory]_vars

-----------------------------------------------------------------------------
(* Claims about the deck computation (SelSpec) *)

\* How many entries of a list of cards carry the identifier id.
CountId(cards, id) == Cardinality({k \in 1..Len(cards) : cards[k].id = id})

SameIds(a, b) ==
    /\ Len(a) = Len(b)
    /\ \A id \in 1..MaxSel + 1 : CountId(a, id) = CountId(b, id)

\* C7 as stated: sequential selection with start-offset k and no limit yields
\* exactly len(source) - k items, the source with its first k items dropped,
\* for any k the setup step passes in.
C7_SequentialYieldsLenMinusK ==
    (selDone /\ selSettings.order = "SEQUENTIAL" /\ selSettings.limit.all) =>
        LET k == selSettings.startIndex
        IN  /\ Len(selDeck) = Len(selSource) - k
            /\ selDeck = SubSeq(selSource, k + 1, Len(selSource))

\* C7 amended: for a start-offset k >= 0 and no limit, sequential selection
\* yields max(len(source) - k, 0) items, the source with its first
\* min(k, len(source)) items dropped and the rest in their order; for a
\* negative k it yields the whole source.
C7_SequentialDropsUpToK ==
    (selDone /\ selSettings.order = "SEQUENTIAL" /\ selSettings.limit.all) =>
        LET k == selSettings.startIndex
            n == Len(selSource)
        IN  IF k >= 0
            THEN /\ Len(selDeck) = (IF n - k > 0 THEN n - k ELSE 0)
                 /\ \A m \in 1..Len(selDeck) : selDeck[m] = selSource[k + m]
            ELSE selDeck = selSource

\* C7's case: a start-offset inside the source has dropped a proper prefix.
C7_Witness ==
    /\ selDone
    /\ selSettings.order = "SEQUENTIAL"
    /\ selSettings.limit.all
    /\ selSettings.startIndex = 2
    /\ Len(selSource) = 3
    /\ Len(selDeck) = 1

\* C8: the shuffled list has the identifiers of the source, each as often as
\* the source has it (with no limit the deck is that list, so it holds every
\* identifier of the source exactly once), and the source array is left as
\* it was.
C8_ShuffleIsPermutation ==
    (selDone /\ selSettings.order = "RANDOM") =>
        /\ SameIds(selOrdered, selSource)
        /\ selSettings.limit.all =>
              /\ selDeck = selOrdered
              /\ \A k \in 1..Len(selSource) :
                    CountId(selDeck, selSource[k].id) = 1
        /\ selSourceAfter = selSource

\* C8's case: a shuffle of three or more cards that moved every card.
C8_Witness ==
    /\ selDone
    /\ selSettings.order = "RANDOM"
    /\ selSettings.limit.all
    /\ Len(selSource) >= 3
    /\ \A k \in 1..Len(selSource) : selDeck[k] # selSource[k]

Min(a, b) == IF a < b THEN a ELSE b
Max(a, b) == IF a > b THEN a ELSE b

\* The deck is the ordered list cut to the limit: its first L entries for a
\* numeric limit L, the whole of it for the limit ALL.
DeckIsOrderedCutToLimit ==
    IF selSettings.limit.all THEN selDeck = selOrdered
    ELSE selDeck =
           SubSeq(selOrdered, 1, Min(selSettings.limit.n, Len(selOrdered)))

\* The deck of a sequential selection has len entries, those of the source
\* behind its first k.
SequentialDeckIs(k, len) ==
    /\ Len(selDeck) = len
    /\ \A m \in 1..Len(selDeck) :
          /\ k + m \in 1..Len(selSource)
          /\ selDeck[m] = selSource[k + m]

\* C17 as stated: the limit is applied to the ordered list; for a source of
\* n items and a numeric limit L a random selection yields min(L, n) items
\* and a sequential selection with start-offset k yields
\* min(L, max(n - k, 0)) items, the first ones behind the dropped prefix of
\* k; with the limit ALL all remaining items are kept; a random selection
\* drops no prefix whatever the start-offset.
C17_LimitAfterOrdering ==
    selDone =>
        LET n == Len(selSource)
            k == selSettings.startIndex
            L == selSettings.limit.n
        IN  /\ DeckIsOrderedCutToLimit
            /\ selSettings.order = "RANDOM" =>
                  /\ SameIds(selOrdered, selSource)
                  /\ Len(selDeck) = (IF selSettings.limit.all THEN n
                                     ELSE Min(L, n))
            /\ (selSettings.order = "SEQUENTIAL" /\ ~selSettings.limit.all) =>
                  SequentialDeckIs(k, Min(L, Max(n - k, 0)))

\* C17 amended: as stated for an integer start-offset k >= 0; a negative
\* start-offset drops nothing, so a sequential selection then yields the
\* first min(L, n) items of the source (all n with the limit ALL).
C17_LimitAfterOrderingFromZero ==
    selDone =>
        LET n == Len(selSource)
            k == Max(selSettings.startIndex, 0)
            L == selSettings.limit.n
        IN  /\ DeckIsOrderedCutToLimit
            /\ selSettings.order = "RANDOM" =>
                  /\ SameIds(selOrdered, selSource)
                  /\ Len(selDeck) = (IF selSettings.limit.all THEN n
                                     ELSE Min(L, n))
            /\ selSettings.order = "SEQUENTIAL" =>
                  SequentialDeckIs(k, IF selSettings.limit.all
                                      THEN Max(n - k, 0)
                                      ELSE Min(L, Max(n - k, 0)))

\* C17's case: of four cards in their order the first is dropped and the
\* limit 2 keeps the second and the third.
C17_Witness ==
    /\ selDone
    /\ selSettings.order = "SEQUENTIAL"
    /\ selSettings.startIndex = 1
    /\ selSettings.limit = LimitOf(2)
    /\ Len(selSource) = 4
    /\ selDeck = SubSeq(selSource, 2, 3)

-----------------------------------------------------------------------------
(* Claims about normalizeString and checkInput (NormSpec) *)

\* normalizeString(s) is in the form the compatibility normalisation
\* produces: normalising it again changes nothing.
NormalFormStable(s) == NFKC(normalizeString(s)) = normalizeString(s)

HasInnerWhiteSpace(s) ==
    \E k \in 2..Len(s) - 1 :
        /\ s[k] \in WhiteSpace
        /\ s[1] \notin WhiteSpace
        /\ s[Len(s)] \notin WhiteSpace

\* C9 as stated: normalizeString is idempotent on every string.
C9_Idempotent ==
    normalizeString(normalizeString(normInput)) = normalizeString(normInput)

\* C9 amended: normalizeString(normalizeString(s)) = normalizeString(s) for
\* every string s whose normalizeString(s) is unchanged by the compatibility
\* normalisation.  (It is changed when the removal of white space brings a
\* combining character next to a letter it composes with: the letter a, a
\* space and U+0308 give a followed by U+0308 the first time and the single
\* letter U+00E4 the second time.)
C9_IdempotentOnStableForms ==
    NormalFormStable(normInput) =>
        normalizeString(normalizeString(normInput)) = normalizeString(normInput)

\* C9's case: an input with white space inside that normalizeString changes
\* into a stable form, graded by checkInput.
C9_Witness ==
    /\ normResult # "null"
    /\ HasInnerWhiteSpace(normInput)
    /\ NormalFormStable(normInput)
    /\ normalizeString(normInput) # normInput

-----------------------------------------------------------------------------
(* Claims about parseCSV (ParseSpec) *)

\* The identifiers of a list of cards, in order.
Ids(cards) == [j \in 1..Len(cards) |-> cards[j].id]

StrictlyIncreasing(ns) == \A j \in 1..Len(ns) - 1 : ns[j] < ns[j + 1]

\* The 1-based positions, in the retained rows, of the rows after the first
\* that have two or more fields.
RecordRows(rows) == {p \in 2..Len(rows) : Len(rows[p]) >= 2}

\* What parseCSV returns for ExampleText, but for the identifier.
ExampleCard(id) == [id |-> id, question |-> <<"Apple">>, answer |-> <<"ringo">>]

\* C1 as stated: the records are those of the rows with two or more fields,
\* in row order, and a record's identifier is the 1-based position of its row
\* with the header as row 1; the example text yields one record with
\* identifier 2.
C1_IdIsRowNumberFromOne ==
    csvDone =>
        /\ StrictlyIncreasing(Ids(csvCards))
        /\ {csvCards[j].id : j \in 1..Len(csvCards)} = RecordRows(csvRows)
        /\ (csvText = ExampleText => csvCards = <<ExampleCard(2)>>)

\* C1 amended: the records are those of the rows after the header with two or
\* more fields, in row order, and a record's identifier is the 0-based index
\* of its row in the retained rows (the header is row 0, the first data row
\* gets 1); the example text yields one record with identifier 1.
C1_IdIsRowIndexFromZero ==
    csvDone =>
        /\ StrictlyIncreasing(Ids(csvCards))
        /\ \A j \in 1..Len(csvCards) :
              LET c == csvCards[j]
                  p == c.id + 1
              IN  /\ p \in RecordRows(csvRows)
                  /\ c.question = Trim(csvRows[p][1])
                  /\ c.answer = Trim(csvRows[p][2])
        /\ \A p \in RecordRows(csvRows) :
              \E j \in 1..Len(csvCards) : csvCards[j].id = p - 1
        /\ (csvText = ExampleText => csvCards = <<ExampleCard(1)>>)

\* C1's case: the example text has been parsed.
C1_Witness ==
    csvDone /\ csvText = ExampleText /\ Len(csvCards) = 1

\* C2: an identifier is the 1-based offset of the record's row among the
\* retained rows after the header: the k-th retained row after the header,
\* when it yields a record, yields the one with identifier k, and the first
\* data row gets 1.
C2_IdIsOffsetAfterHeader ==
    csvDone =>
        LET after == SubSeq(csvRows, 2, Len(csvRows))
            kept == {k \in 1..Len(after) : Len(after[k]) >= 2}
        IN  /\ Len(csvCards) = Cardinality(kept)
            /\ \A j \in 1..Len(csvCards) :
                  /\ csvCards[j].id \in kept
                  /\ j > 1 => csvCards[j - 1].id < csvCards[j].id
            /\ (Len(after) >= 1 /\ Len(after[1]) >= 2
                    => csvCards[1].id = 1)

\* C2's case: two records around a one-field row, with identifiers 1 and 3.
C2_Witness ==
    /\ csvDone
    /\ Len(csvRows) = 4
    /\ Len(csvRows[3]) = 1
    /\ Ids(csvCards) = <<1, 3>>

\* The text is one quoted field: it starts and ends with a double quote.
IsQuotedText(text) ==
    Len(text) >= 2 /\ text[1] = DQ /\ text[Len(text)] = DQ

\* What stands between the quotes of such a text.
BodyOf(text) == SubSeq(text, 2, Len(text) - 1)

HasChar(s, c) == \E k \in 1..Len(s) : s[k] = c

\* C11: a text that is one quoted field, with no double quote between the
\* quotes and a comma, a carriage return or a line feed among its content,
\* parses as one row of one field, which is the content between the quotes;
\* "a,b<LF>c" gives the field a,b<LF>c.
C11_QuotedSeparatorsAreLiteral ==
    csvDone =>
        /\ (/\ IsQuotedText(csvText)
            /\ ~HasChar(BodyOf(csvText), DQ)
            /\ \E c \in {COMMA, CR, LF} : HasChar(BodyOf(csvText), c))
              => csvRows = << <<BodyOf(csvText)>> >>
        /\ csvText = QuotedExample
              => csvRows = << << <<"a", COMMA, "b", LF, "c">> >> >>

\* C11: the quoted field a,b<LF>c has been parsed.
C11_Witness ==
    /\ csvDone
    /\ csvText = QuotedExample
    /\ Len(csvRows) = 1
    /\ Len(csvRows[1]) = 1

\* The double quotes between the quotes come in pairs.
RECURSIVE QuotesPaired(_)
QuotesPaired(body) ==
    IF body = <<>> THEN TRUE
    ELSE IF body[1] # DQ THEN QuotesPaired(Tail(body))
    ELSE Len(body) >= 2 /\ body[2] = DQ /\ QuotesPaired(Tail(Tail(body)))

\* The content with one double quote for every pair.
RECURSIVE Unpaired(_)
Unpaired(body) ==
    IF body = <<>> THEN <<>>
    ELSE IF body[1] # DQ THEN <<body[1]>> \o Unpaired(Tail(body))
    ELSE <<DQ>> \o Unpaired(Tail(Tail(body)))

\* C12: in a text that is one quoted field whose inner double quotes come in
\* pairs (at least one pair), every pair gives one double quote of the
\* field and the field goes on to the closing quote: the text parses as one
\* row of one field, the content with each pair replaced by one quote;
\* "he said ""hi""" gives he said "hi".
C12_DoubledQuoteIsOneQuote ==
    csvDone =>
        /\ (/\ IsQuotedText(csvText)
            /\ HasChar(BodyOf(csvText), DQ)
            /\ QuotesPaired(BodyOf(csvText)))
              => csvRows = << <<Unpaired(BodyOf(csvText))>> >>
        /\ csvText = DoubledExample
              => csvRows =
                   << << <<"he", SP, "said", SP, DQ, "hi", DQ>> >> >>

\* C12: the quoted field he said ""hi"" has been parsed.
C12_Witness ==
    /\ csvDone
    /\ csvText = DoubledExample
    /\ Len(csvRows) = 1
    /\ Len(csvRows[1]) = 1
    /\ Len(csvRows[1][1]) = 7

\* The rows after the first that have two or more fields, in order.
LongRows(rows) ==
    LET long(row) == Len(row) >= 2
    IN  SelectSeq(SubSeq(rows, 2, Len(rows)), long)

\* C13: the records are, in order, those of the rows after the header that
\* have two or more fields, one for each: a row with fewer than two fields
\* gives no record, wherever it stands, and every other row after the header
\* gives one, with its first two fields trimmed.
C13_ShortRowsGiveNoRecord ==
    csvDone =>
        LET long == LongRows(csvRows)
        IN  /\ Len(csvCards) = Len(long)
            /\ \A j \in 1..Len(long) :
                  /\ csvCards[j].question = Trim(long[j][1])
                  /\ csvCards[j].answer = Trim(long[j][2])

\* C13: a text of four rows, the second and the last (which has no line
\* break after it) of one field: one record, that of the third row.
C13_Witness ==
    /\ csvDone
    /\ Len(csvRows) = 4
    /\ Len(csvRows[1]) = 2
    /\ Len(csvRows[2]) = 1
    /\ Len(csvRows[3]) = 2
    /\ Len(csvRows[4]) = 1
    /\ csvText[Len(csvText)] # LF
    /\ Len(csvCards) = 1

\* C15: no two records of one result have the same identifier, and the
\* identifiers increase strictly in the order of the result.
C15_IdsUniqueAndIncreasing ==
    csvDone =>
        \A j, k \in 1..Len(csvCards) :
            j < k => csvCards[j].id < csvCards[k].id

\* C15: a result of three records.
C15_Witness ==
    /\ csvDone
    /\ Len(csvCards) = 3
    /\ Len(csvRows) = 4

\* C14: the text with an empty line more, wherever the line is put (in
\* front of the header, between two lines, at the end), parses to the same
\* rows and to the same records with the same identifiers.
C14_BlankLineAddsNothing ==
    csvBlank.done =>
        /\ csvBlank.rows = csvRows
        /\ csvBlank.cards = csvCards

\* C14: an empty line was put between the lines of a text with two records.
C14_Witness ==
    /\ csvBlank.done
    /\ Ids(csvCards) = <<1, 2>>
    /\ \E k \in 2..Len(csvBlank.text) - 2 :
          /\ csvBlank.text[k] = LF
          /\ csvBlank.text[k + 1] = LF
          /\ csvBlank.text[k + 2] \notin {LF, CR}

-----------------------------------------------------------------------------
(* Claims about the single-screen version (HomeSpec) *)

\* The button of the finished screen has just been pressed.
BackPressedOnFinished ==
    /\ homeLast.handler = "goBack"
    /\ homeLast.isFinished

\* part_000:189: the card shown is the last one of playCards.
LastCardShown ==
    /\ ~home.isFinished
    /\ home.currentIndex = Len(home.playCards) - 1

\* In every reachable state with a non-empty play queue the current index
\* is within 0 .. length of the play queue - 1.
HomeIndexInRange ==
    Len(home.playCards) # 0 =>
        home.currentIndex \in 0..(Len(home.playCards) - 1)

\* C20: pressing "return to the last question" on the finished screen
\* always leaves the finished state and shows the last card of the play
\* queue, for every play queue of one card or more; and the current index
\* stays within 0 .. length of the play queue - 1 whenever the play queue is
\* not empty.  (Violated: goBack does nothing on a queue of one card, and
\* shows the card before the last one on a longer queue.)
C20_BackFromFinishedShowsLastCard ==
    /\ (BackPressedOnFinished /\ Len(home.playCards) >= 1) => LastCardShown
    /\ HomeIndexInRange

\* What the button of the finished screen does: on a queue of one card the
\* finished screen stays; on a longer queue the card before the last one is
\* shown.
BackFromFinishedShowsCardBefore ==
    BackPressedOnFinished =>
        /\ homeLast.currentIndex = Len(home.playCards) - 1
        /\ IF Len(home.playCards) = 1
           THEN home.isFinished /\ home.currentIndex = 0
           ELSE /\ ~home.isFinished
                /\ home.currentIndex = Len(home.playCards) - 2

\* After the button was pressed the last card is never the one shown.
BackFromFinishedNeverShowsLast ==
    BackPressedOnFinished => ~LastCardShown

\* The button was pressed on a queue of one card, and on a longer one.
BackPressedOnOneCard ==
    BackPressedOnFinished /\ Len(home.playCards) = 1

BackPressedOnLongerQueue ==
    BackPressedOnFinished /\ Len(home.playCards) = 3

=============================================================================
